---- MODULE Spec2Model ----
(***************************************************************************)
(* Model of the two provisioning scripts of britishpennies:                *)
(*   "e2b"     = src/e2b-britishpennies/scripts/setup_google_tools.py      *)
(*   "scripts" = src/scripts/google_setup.py                               *)
(* Both obtain an OAuth credential, reconcile one GA4 property and one web *)
(* data stream per domain, register the domains with Search Console and    *)
(* write the measurement IDs.  The remote services are modelled as lists   *)
(* of resources; every remote call may succeed or raise.                   *)
(***************************************************************************)
EXTENDS Integers, Sequences, FiniteSets, TLC

\* ------------------------------------------------------------------ text
\* Python strings are tuples of one-character strings.

britishpennies_com == <<"b", "r", "i", "t", "i", "s", "h", "p", "e", "n", "n", "i", "e", "s", ".", "c", "o", "m">>

britishpennies_org == <<"b", "r", "i", "t", "i", "s", "h", "p", "e", "n", "n", "i", "e", "s", ".", "o", "r", "g">>

DOMAINS == <<britishpennies_com, britishpennies_org>>

NDomains == Len(DOMAINS)

DomainIx == 1..NDomains

UpperCase == <<"A", "B", "C", "D", "E", "F", "G", "H", "I", "J", "K", "L", "M", "N", "O", "P", "Q", "R", "S", "T", "U", "V", "W", "X", "Y", "Z">>

LowerCase == <<"a", "b", "c", "d", "e", "f", "g", "h", "i", "j", "k", "l", "m", "n", "o", "p", "q", "r", "s", "t", "u", "v", "w", "x", "y", "z">>

\* str.lower() on one character
LowerChar(c) ==
  IF \E k \in 1..Len(UpperCase) : UpperCase[k] = c
  THEN LowerCase[CHOOSE k \in 1..Len(UpperCase) : UpperCase[k] = c]
  ELSE c

\* str.lower()
Lower(str) == [k \in 1..Len(str) |-> LowerChar(str[k])]

\* str.replace(ch, '')
Remove(str, ch) == SelectSeq(str, LAMBDA c : c # ch)

\* sub in str
Contains(str, sub) ==
  \E k \in 0..(Len(str) - Len(sub)) :
    \A j \in 1..Len(sub) : str[k + j] = sub[j]

\* str.endswith(suffix)
EndsWith(str, suffix) ==
  /\ Len(suffix) <= Len(str)
  /\ \A j \in 1..Len(suffix) : str[Len(str) - Len(suffix) + j] = suffix[j]

\* f'British Pennies ({domain})'
PropertyDisplayName(d) ==
  <<"B", "r", "i", "t", "i", "s", "h", " ", "P", "e", "n", "n", "i", "e", "s", " ", "(">>
    \o DOMAINS[d] \o <<")">>

\* f'https://{domain}'
StreamDefaultUri(d) ==
  <<"h", "t", "t", "p", "s", ":", "/", "/">> \o DOMAINS[d]

\* ------------------------------------------------- remote resource values
\* Display names and URIs the remote service may hold: the ones the scripts
\* create and a hand-made property name, "BritishPennies.com".  The state
\* stores the index of a text in these tables; every test on a text is
\* computed on the characters.

DisplayNames ==
  << PropertyDisplayName(1),
     PropertyDisplayName(2),
     <<"B", "r", "i", "t", "i", "s", "h", "P", "e", "n", "n", "i", "e", "s", ".", "c", "o", "m">> >>

NameIds == 1..Len(DisplayNames)

Uris ==
  << StreamDefaultUri(1),
     StreamDefaultUri(2) >>

UriIds == 1..Len(Uris)

NameIdOf(str) == CHOOSE n \in NameIds : DisplayNames[n] = str

UriIdOf(str) == CHOOSE u \in UriIds : Uris[u] = str

Scripts == {"e2b", "scripts"}

\* ------------------------------------------------------------- bounds
\* properties and data streams that exist before the first run
MaxInitProps == 2

MaxInitStreams == 2

\* runs of the script in one behaviour
MaxRuns == 2

\* the same for the behaviours in which remote calls may raise
FaultInit == 1

FaultRuns == 1

\* properties that exist before the first run in the behaviours that vary
\* the stored token and the client-secret file
AuthInit == 0


\* ------------------------------------------------------------ matching
\* '' for a stream without webStreamData
UriText(u) == IF u = 0 THEN <<>> ELSE Uris[u]

\* variant: the second script strips the dots of the domain only
PropMatches_KeepDots(s, n, d) ==
  IF s = "e2b"
  THEN Contains(DisplayNames[n], DOMAINS[d])
  ELSE Contains(Remove(Lower(DisplayNames[n]), " "), Remove(DOMAINS[d], "."))

\* the test that decides whether a listed property belongs to a domain
\* (setup_google_tools.py:103, google_setup.py:104)
PropMatches(s, n, d) ==
  IF s = "e2b"
  THEN Contains(DisplayNames[n], DOMAINS[d])
  ELSE Contains(Remove(Remove(Lower(DisplayNames[n]), " "), "."),
                Remove(DOMAINS[d], "."))

PropMatchTable ==
  [s \in Scripts |-> [n \in NameIds |-> [d \in DomainIx |-> PropMatches(s, n, d)]]]

\* the test that decides whether a listed data stream is the domain's
\* (setup_google_tools.py:131, google_setup.py:125)
StreamMatches(s, st, d) ==
  IF s = "e2b"
  THEN EndsWith(UriText(st.uri), DOMAINS[d])
  ELSE st.web

StreamMatchTable ==
  [s \in Scripts |-> [w \in BOOLEAN |-> [u \in 0..Len(Uris) |-> [d \in DomainIx |->
      StreamMatches(s, [parent |-> 0, web |-> w, uri |-> u], d)]]]]

\* variant: only the first listed property is tested
FindProperty_FirstOnly(s, ps, d) ==
  IF Len(ps) > 0 /\ PropMatchTable[s][ps[1]][d] THEN 1 ELSE 0

\* the for-loop with break over the listed properties: name (index) of the
\* first match, 0 when nothing matches
FindProperty(s, ps, d) ==
  LET hits == {k \in 1..Len(ps) : PropMatchTable[s][ps[k]][d]}
  IN IF hits = {} THEN 0 ELSE CHOOSE k \in hits : \A h \in hits : k <= h

\* variant: the loop has no break, so the last match wins
FindStream_Last(s, sts, parent, d) ==
  LET hits == {k \in 1..Len(sts) :
                 /\ sts[k].parent = parent
                 /\ StreamMatchTable[s][sts[k].web][sts[k].uri][d]}
  IN IF hits = {} THEN 0 ELSE CHOOSE k \in hits : \A h \in hits : k >= h

\* the for-loop with break over the data streams listed under parent:
\* index of the first match, 0 when nothing matches
FindStream(s, sts, parent, d) ==
  LET hits == {k \in 1..Len(sts) :
                 /\ sts[k].parent = parent
                 /\ StreamMatchTable[s][sts[k].web][sts[k].uri][d]}
  IN IF hits = {} THEN 0 ELSE CHOOSE k \in hits : \A h \in hits : k <= h

\* ---------------------------------------------------------- credentials
NoCreds == [token |-> FALSE, expired |-> FALSE, refresh |-> FALSE, origin |-> "none"]

StoredTokens ==
  [token : BOOLEAN, expired : BOOLEAN, refresh : BOOLEAN, origin : {"stored"}]

ValidToken == [token |-> TRUE, expired |-> FALSE, refresh |-> TRUE, origin |-> "stored"]

\* Credentials.valid
Valid(c) == c.token /\ ~c.expired

\* variant: an expired token is never refreshed
CredentialPath_NoRefresh(c) ==
  IF c.origin # "none" /\ Valid(c) THEN "valid" ELSE "flow"

\* which branch get_credentials takes for the loaded token (NoCreds when
\* the token file does not exist)
CredentialPath(c) ==
  IF c.origin # "none" /\ Valid(c) THEN "valid"
  ELSE IF c.origin # "none" /\ c.expired /\ c.refresh THEN "refresh"
  ELSE "flow"

\* what happens when the client-secret file is missing on the flow branch:
\* setup_google_tools.py:53-62 returns None, google_setup.py:52 opens the
\* file and raises
MissingSecret(s) == IF s = "e2b" THEN "return_none" ELSE "raise"

\* ------------------------------------------------------------- state
VARIABLES
  script,           \* which of the two scripts runs
  flaky,            \* Analytics and Search Console calls may raise in this behaviour
  run,              \* number of the current run of main
  pc,               \* position of main
  tokenFile,        \* content of google-analytics-token.json (NoCreds: absent)
  secretExists,     \* the client-secret file exists
  creds,            \* credential held by main (NoCreds: None)
  tokenWrites,      \* writes of the token file in this run
  flowRuns,         \* interactive authorizations in this run
  hasAccount,       \* the accounts listing is non-empty
  props,            \* remote properties in listing order: display-name ids
  streams,          \* remote data streams in listing order
  i,                \* loop index over DOMAINS
  prop_name,        \* property selected or created for DOMAINS[i]
  measurement_ids,  \* setup_analytics' dict: domain index -> stream (0: no key)
  main_ids,         \* main's measurement_ids: the value setup_analytics returned
  calls,            \* remote calls and file writes of this run, in order
  scResult,         \* outcome of the Search Console call just made
  idsFile,          \* content of ga_measurement_ids.json
  prevClean,        \* the previous run finished without any failure
  prevProps,        \* number of properties when the previous run ended
  prevStreams,      \* number of data streams when the previous run ended
  prevCreates       \* number of resources the previous run created

vars == <<script, flaky, run, pc, tokenFile, secretExists, creds, tokenWrites, flowRuns,
          hasAccount, props, streams, i, prop_name, measurement_ids, main_ids,
          calls, scResult, idsFile, prevClean, prevProps, prevStreams, prevCreates>>

credVars == <<tokenFile, secretExists, creds, tokenWrites, flowRuns>>

remoteVars == <<hasAccount, props, streams>>

gaVars == <<i, prop_name, measurement_ids>>

prevVars == <<prevClean, prevProps, prevStreams, prevCreates>>

NoIds == [d \in DomainIx |-> 0]

NoFile == [exists |-> FALSE, ids |-> NoIds]

\* None as the value of a dict variable
None == [none |-> TRUE, ids |-> NoIds]

StreamKinds == {[web |-> FALSE, uri |-> 0]} \cup [web : {TRUE}, uri : UriIds]

SeqsUpTo(S, n) == UNION {[1..k -> S] : k \in 0..n}

\* The data streams are only ever listed per property, so the initial ones
\* are taken grouped by parent.
InitStreams(np, n) ==
  {[k \in 1..Len(q) |-> [parent |-> q[k][1], web |-> q[k][2].web, uri |-> q[k][2].uri]] :
     q \in {r \in SeqsUpTo((1..np) \X StreamKinds, n) :
              \A k \in 1..(Len(r) - 1) : r[k][1] <= r[k + 1][1]}}

\* The state before the first run.  Three families of initial states keep
\* the model finite and small: every stored token and client-secret state
\* with few remote resources; failing remote calls with few remote
\* resources; and the larger remote states with a valid token and remote
\* calls that succeed.
Init ==
  /\ script \in Scripts
  /\ run = 1
  /\ pc = "get_credentials"
  /\ hasAccount \in BOOLEAN
  /\ \/ /\ flaky = FALSE
        /\ tokenFile \in StoredTokens \cup {NoCreds}
        /\ secretExists \in BOOLEAN
        /\ props \in SeqsUpTo(NameIds, AuthInit)
        /\ streams \in InitStreams(Len(props), AuthInit)
     \/ /\ flaky = TRUE
        /\ tokenFile = ValidToken
        /\ secretExists = TRUE
        /\ props \in SeqsUpTo(NameIds, FaultInit)
        /\ streams \in InitStreams(Len(props), FaultInit)
     \/ /\ flaky = FALSE
        /\ tokenFile = ValidToken
        /\ secretExists = TRUE
        /\ props \in SeqsUpTo(NameIds, MaxInitProps)
        /\ streams \in InitStreams(Len(props), MaxInitStreams)
  /\ (~hasAccount => props = <<>>)
  /\ creds = NoCreds
  /\ tokenWrites = 0
  /\ flowRuns = 0
  /\ i = 0
  /\ prop_name = 0
  /\ measurement_ids = NoIds
  /\ main_ids = None
  /\ calls = <<>>
  /\ scResult = "none"
  /\ idsFile = NoFile
  /\ prevClean = FALSE
  /\ prevProps = 0
  /\ prevStreams = 0
  /\ prevCreates = 0

\* the outcomes a remote call can have: it returns, or it raises
Outcomes == IF flaky THEN {TRUE, FALSE} ELSE {TRUE}

Call(op, d, arg, res) == [op |-> op, d |-> d, arg |-> arg, res |-> res]

\* ------------------------------------------------------ get_credentials
\* main's call of get_credentials and its "if not creds: return"
\* (setup_google_tools.py:42-71 and 229-231, google_setup.py:34-73 and
\* 220-224).  refresh() and the interactive flow may raise.
GetCredentials ==
  /\ pc = "get_credentials"
  /\ LET path == CredentialPath(tokenFile) IN
     \E ok \in BOOLEAN :
       CASE path = "valid" ->
              /\ ok
              /\ creds' = tokenFile
              /\ pc' = "ga_accounts"
              /\ UNCHANGED <<tokenFile, tokenWrites, flowRuns>>
         [] path = "refresh" ->
              /\ IF ok
                 THEN /\ creds' = [token |-> TRUE, expired |-> FALSE,
                                   refresh |-> TRUE, origin |-> "refreshed"]
                      /\ tokenFile' = creds'
                      /\ tokenWrites' = tokenWrites + 1
                      /\ pc' = "ga_accounts"
                 ELSE /\ pc' = "crashed"
                      /\ UNCHANGED <<creds, tokenFile, tokenWrites>>
              /\ UNCHANGED flowRuns
         [] path = "flow" /\ ~secretExists ->
              /\ ok
              /\ pc' = IF MissingSecret(script) = "return_none" THEN "returned" ELSE "crashed"
              /\ UNCHANGED <<creds, tokenFile, tokenWrites, flowRuns>>
         [] path = "flow" /\ secretExists ->
              /\ flowRuns' = flowRuns + 1
              /\ IF ok
                 THEN /\ creds' = [token |-> TRUE, expired |-> FALSE,
                                   refresh |-> TRUE, origin |-> "interactive"]
                      /\ tokenFile' = creds'
                      /\ tokenWrites' = tokenWrites + 1
                      /\ pc' = "ga_accounts"
                 ELSE /\ pc' = "crashed"
                      /\ UNCHANGED <<creds, tokenFile, tokenWrites>>
  /\ UNCHANGED <<script, flaky, run, secretExists, hasAccount, props, streams, i, prop_name,
                 measurement_ids, main_ids, calls, scResult, idsFile,
                 prevClean, prevProps, prevStreams, prevCreates>>


\* ------------------------------------------------------ setup_analytics
GaOps == {"accounts.list", "properties.list", "properties.create",
          "dataStreams.list", "dataStreams.create"}

CreateOps == {"properties.create", "dataStreams.create"}

\* where an exception raised by a remote call inside setup_analytics goes:
\* "caught" by the function's own try/except around the whole body
\* (setup_google_tools.py:78, 155-157), or "raised" out of main
\* (google_setup.py:76-146 has no try)
AnalyticsFailure(s) == IF s = "e2b" THEN "caught" ELSE "raised"

\* where an exception raised by build() inside setup_search_console goes
\* (setup_google_tools.py:164, 195-197; google_setup.py:155)
SearchConsoleFailure(s) == IF s = "e2b" THEN "caught" ELSE "raised"

\* the pc after a remote call of setup_analytics raised
AfterGaError == IF AnalyticsFailure(script) = "caught" THEN "sc_build" ELSE "crashed"

GaError(op, arg) ==
  /\ calls' = Append(calls, Call(op, i, arg, "error"))
  /\ pc' = AfterGaError
  /\ main_ids' = None
  /\ UNCHANGED <<i, prop_name, measurement_ids, props, streams>>

\* end of one iteration of "for domain in DOMAINS" with ids as the dict
NextDomain(ids) ==
  IF i < NDomains
  THEN /\ i' = i + 1
       /\ pc' = "ga_list_props"
       /\ UNCHANGED main_ids
  ELSE /\ i' = i
       /\ pc' = "sc_build"
       /\ main_ids' = [none |-> FALSE, ids |-> ids]

\* build the client, list the accounts, "if not accounts: return None"
\* (setup_google_tools.py:78-94, google_setup.py:83-95)
ListAccounts ==
  /\ pc = "ga_accounts"
  /\ \E ok \in Outcomes :
       IF ok
       THEN /\ calls' = Append(calls, Call("accounts.list", 0, 0, "ok"))
            /\ measurement_ids' = NoIds
            /\ prop_name' = 0
            /\ IF hasAccount
               THEN /\ i' = 1
                    /\ pc' = "ga_list_props"
                    /\ UNCHANGED main_ids
               ELSE /\ i' = 0
                    /\ pc' = "sc_build"
                    /\ main_ids' = None
       ELSE /\ calls' = Append(calls, Call("accounts.list", 0, 0, "error"))
            /\ pc' = AfterGaError
            /\ main_ids' = None
            /\ UNCHANGED <<i, prop_name, measurement_ids>>
  /\ UNCHANGED <<script, flaky, run, hasAccount, props, streams, idsFile, scResult>>
  /\ UNCHANGED credVars
  /\ UNCHANGED prevVars

\* list the properties of the account and pick the first match
\* (setup_google_tools.py:99-109, google_setup.py:100-109)
ListProperties ==
  /\ pc = "ga_list_props"
  /\ \E ok \in Outcomes :
       IF ok
       THEN /\ calls' = Append(calls, Call("properties.list", i, 0, "ok"))
            /\ prop_name' = FindProperty(script, props, i)
            /\ pc' = IF prop_name' = 0 THEN "ga_create_prop" ELSE "ga_list_streams"
            /\ UNCHANGED <<i, measurement_ids, main_ids, props, streams>>
       ELSE GaError("properties.list", 0)
  /\ UNCHANGED <<script, flaky, run, hasAccount, idsFile, scResult>>
  /\ UNCHANGED credVars
  /\ UNCHANGED prevVars

\* "if not existing": create the property
\* (setup_google_tools.py:110-124, google_setup.py:109-119)
CreateProperty ==
  /\ pc = "ga_create_prop"
  /\ \E ok \in Outcomes :
       IF ok
       THEN /\ calls' = Append(calls, Call("properties.create", i, 0, "ok"))
            /\ props' = Append(props, NameIdOf(PropertyDisplayName(i)))
            /\ prop_name' = Len(props')
            /\ pc' = "ga_list_streams"
            /\ UNCHANGED <<i, measurement_ids, main_ids, streams>>
       ELSE GaError("properties.create", 0)
  /\ UNCHANGED <<script, flaky, run, hasAccount, idsFile, scResult>>
  /\ UNCHANGED credVars
  /\ UNCHANGED prevVars

\* list the data streams of the property and pick the first match
\* (setup_google_tools.py:126-135, google_setup.py:121-129)
ListDataStreams ==
  /\ pc = "ga_list_streams"
  /\ \E ok \in Outcomes :
       IF ok
       THEN /\ calls' = Append(calls, Call("dataStreams.list", i, prop_name, "ok"))
            /\ LET k == FindStream(script, streams, prop_name, i) IN
               IF k # 0
               THEN /\ measurement_ids' = [measurement_ids EXCEPT ![i] = k]
                    /\ NextDomain(measurement_ids')
               ELSE /\ pc' = "ga_create_stream"
                    /\ UNCHANGED <<i, measurement_ids, main_ids>>
            /\ UNCHANGED <<prop_name, props, streams>>
       ELSE GaError("dataStreams.list", prop_name)
  /\ UNCHANGED <<script, flaky, run, hasAccount, idsFile, scResult>>
  /\ UNCHANGED credVars
  /\ UNCHANGED prevVars

\* "if not stream_exists": create the web data stream
\* (setup_google_tools.py:137-151, google_setup.py:131-144)
CreateDataStream ==
  /\ pc = "ga_create_stream"
  /\ \E ok \in Outcomes :
       IF ok
       THEN /\ calls' = Append(calls, Call("dataStreams.create", i, prop_name, "ok"))
            /\ streams' = Append(streams, [parent |-> prop_name, web |-> TRUE,
                                           uri |-> UriIdOf(StreamDefaultUri(i))])
            /\ measurement_ids' = [measurement_ids EXCEPT ![i] = Len(streams')]
            /\ NextDomain(measurement_ids')
            /\ UNCHANGED <<prop_name, props>>
       ELSE GaError("dataStreams.create", prop_name)
  /\ UNCHANGED <<script, flaky, run, hasAccount, idsFile, scResult>>
  /\ UNCHANGED credVars
  /\ UNCHANGED prevVars

\* ------------------------------------------------- setup_search_console
\* sites().add returns, or raises with a message that the handler sorts into
\* 'already exists', '403' and anything else
AddOutcomes ==
  IF flaky THEN {"ok", "already exists", "403", "error"} ELSE {"ok", "already exists"}

GetOutcomes == IF flaky THEN {"ok", "error"} ELSE {"ok"}

\* entry of setup_search_console: build the service
\* (setup_google_tools.py:160-165, google_setup.py:149-155)
BuildSearchConsole ==
  /\ pc = "sc_build"
  /\ \E ok \in Outcomes :
       IF ok
       THEN /\ calls' = Append(calls, Call("sc.build", 0, 0, "ok"))
            /\ i' = 1
            /\ pc' = "sc_add"
       ELSE /\ calls' = Append(calls, Call("sc.build", 0, 0, "error"))
            /\ i' = i
            /\ pc' = IF SearchConsoleFailure(script) = "caught" THEN "output" ELSE "crashed"
  /\ UNCHANGED <<script, flaky, run, prop_name, measurement_ids, main_ids, idsFile, scResult>>
  /\ UNCHANGED credVars
  /\ UNCHANGED remoteVars
  /\ UNCHANGED prevVars

\* variant: an unclassified error of sites().add ends the loop
AfterAdd_Abort(res) == IF res = "error" THEN "output" ELSE "sc_get"

\* the pc after sites().add(...).execute() returned or raised res
AfterAdd(res) == "sc_get"

\* sites().add for DOMAINS[i] inside its own try/except
\* (setup_google_tools.py:167-179, google_setup.py:157-168)
SitesAdd ==
  /\ pc = "sc_add"
  /\ \E res \in AddOutcomes :
       /\ calls' = Append(calls, Call("sites.add", i, 0, "sent"))
       /\ scResult' = res
       /\ pc' = AfterAdd(res)
  /\ UNCHANGED <<script, flaky, run, i, prop_name, measurement_ids, main_ids, idsFile>>
  /\ UNCHANGED credVars
  /\ UNCHANGED remoteVars
  /\ UNCHANGED prevVars

\* sites().get for DOMAINS[i] inside its own try/except, then the next domain
\* (setup_google_tools.py:181-186, google_setup.py:170-175)
SitesGet ==
  /\ pc = "sc_get"
  /\ \E res \in GetOutcomes :
       /\ calls' = Append(calls, Call("sites.get", i, 0, "sent"))
       /\ scResult' = res
  /\ IF i < NDomains
     THEN /\ i' = i + 1
          /\ pc' = "sc_add"
     ELSE /\ i' = i
          /\ pc' = "output"
  /\ UNCHANGED <<script, flaky, run, prop_name, measurement_ids, main_ids, idsFile>>
  /\ UNCHANGED credVars
  /\ UNCHANGED remoteVars
  /\ UNCHANGED prevVars

\* ---------------------------------------------------------------- output
\* "if measurement_ids:" on main's variable
Truthy(m) == ~m.none /\ \E d \in DomainIx : m.ids[d] # 0

\* tail of main: tracking code and ga_measurement_ids.json
\* (setup_google_tools.py:241-251, google_setup.py:178-205 and 235-241)
WriteOutput ==
  /\ pc = "output"
  /\ IF Truthy(main_ids)
     THEN /\ idsFile' = [exists |-> TRUE, ids |-> main_ids.ids]
          /\ calls' = Append(calls, Call("write_ids", 0, 0, "ok"))
     ELSE UNCHANGED <<idsFile, calls>>
  /\ pc' = "done"
  /\ scResult' = "none"
  /\ UNCHANGED <<script, flaky, run, i, prop_name, measurement_ids, main_ids>>
  /\ UNCHANGED credVars
  /\ UNCHANGED remoteVars
  /\ UNCHANGED prevVars

\* ----------------------------------------------------------- second run
Terminal == {"done", "returned", "crashed"}

GaCalls == SelectSeq(calls, LAMBDA c : c.op \in GaOps)

GaFailed == \E k \in 1..Len(calls) : calls[k].op \in GaOps /\ calls[k].res = "error"

\* setup_analytics was entered and every remote call it made succeeded
AnalyticsClean == Len(GaCalls) > 0 /\ ~GaFailed

\* the script is started again; the remote state and the files stay
Rerun ==
  /\ pc \in Terminal
  /\ run < (IF flaky THEN FaultRuns ELSE MaxRuns)
  /\ run' = run + 1
  /\ pc' = "get_credentials"
  /\ creds' = NoCreds
  /\ tokenWrites' = 0
  /\ flowRuns' = 0
  /\ i' = 0
  /\ prop_name' = 0
  /\ measurement_ids' = NoIds
  /\ main_ids' = None
  /\ calls' = <<>>
  /\ scResult' = "none"
  /\ prevClean' = AnalyticsClean
  /\ prevProps' = Len(props)
  /\ prevStreams' = Len(streams)
  /\ prevCreates' = Len(SelectSeq(calls, LAMBDA c : c.op \in CreateOps /\ c.res = "ok"))
  /\ UNCHANGED <<script, flaky, tokenFile, secretExists, idsFile>>
  /\ UNCHANGED remoteVars

Next ==
  \/ GetCredentials
  \/ ListAccounts
  \/ ListProperties
  \/ CreateProperty
  \/ ListDataStreams
  \/ CreateDataStream
  \/ BuildSearchConsole
  \/ SitesAdd
  \/ SitesGet
  \/ WriteOutput
  \/ Rerun

Spec == Init /\ [][Next]_vars


\* ================================================================ claims
CallIx(op, d) == {k \in 1..Len(calls) : calls[k].op = op /\ calls[k].d = d}

Count(op, d) == Cardinality(CallIx(op, d))

Created(op, d) == {k \in CallIx(op, d) : calls[k].res = "ok"}

\* number of properties / data streams that existed when domain d was listed
NPropsSeen(d) ==
  Len(props) - Cardinality(UNION {Created("properties.create", e) : e \in d..NDomains})

NStreamsSeen(d) ==
  Len(streams) - Cardinality(UNION {Created("dataStreams.create", e) : e \in d..NDomains})

\* the listed properties that match domain d
PropHits(d) == {k \in 1..NPropsSeen(d) : PropMatchTable[script][props[k]][d]}

\* the data streams listed under property p that match domain d
StreamHits(d, p) ==
  {k \in 1..NStreamsSeen(d) :
     streams[k].parent = p /\ StreamMatchTable[script][streams[k].web][streams[k].uri][d]}

\* the parent used by the data-stream listing of domain d
Selected(d) == calls[CHOOSE k \in CallIx("dataStreams.list", d) : TRUE].arg

ScCalls == SelectSeq(calls, LAMBDA c : c.op \in {"sites.add", "sites.get"})

WroteIds == \E k \in 1..Len(calls) : calls[k].op = "write_ids"

\* C1: after a run in which setup_analytics completed without a failure, a
\* further run on the unchanged remote state issues no property-create and
\* no data-stream-create call, and the numbers of remote properties and data
\* streams stay what they were when the first run ended.
C1_Idempotent ==
  (run > 1 /\ prevClean) =>
    /\ \A k \in 1..Len(calls) : calls[k].op \notin CreateOps
    /\ pc \notin {"ga_create_prop", "ga_create_stream"}
    /\ Len(props) = prevProps
    /\ Len(streams) = prevStreams

\* a second run has finished after a first run that created resources
C1_Witness ==
  /\ run = 2 /\ prevClean /\ prevCreates > 0
  /\ pc = "done" /\ ~main_ids.none

\* C2: when setup_analytics returns from a run without a failing call, a domain whose
\* property listing had no match gets exactly one property-create call and a
\* domain with a match gets none; a domain whose selected property had no
\* matching data stream gets exactly one data-stream-create call and a domain
\* with a matching stream gets none.  (Matching is the script's own test.)
C2_ExactlyOneCreate ==
  (pc = "sc_build" /\ ~main_ids.none) =>
    \A d \in DomainIx :
      /\ Count("properties.create", d) = (IF PropHits(d) = {} THEN 1 ELSE 0)
      /\ Count("dataStreams.create", d) = (IF StreamHits(d, Selected(d)) = {} THEN 1 ELSE 0)

\* one domain's property was reused and the other domain's was created
C2_Witness ==
  /\ pc = "sc_build"
  /\ ~main_ids.none
  /\ Len(props) > 1
  /\ \E d, e \in DomainIx :
       /\ Count("properties.create", d) = 1
       /\ Count("properties.create", e) = 0
       /\ Count("dataStreams.create", e) = 1

\* C3: at the end of a run the measurement-ID mapping returned to main and
\* written to ga_measurement_ids.json has an entry for exactly the domains
\* whose property and data-stream steps completed, also when a remote call
\* failed for a later domain.
C3_OutputHasCompleted ==
  (pc \in {"done", "crashed"} /\ creds # NoCreds) =>
    \A d \in DomainIx :
      IF measurement_ids[d] # 0
      THEN /\ WroteIds
           /\ idsFile.ids[d] = measurement_ids[d]
           /\ main_ids.ids[d] = measurement_ids[d]
      ELSE ~(WroteIds /\ idsFile.ids[d] # 0)

\* C4: when a remote call of setup_analytics fails while a domain is being
\* processed, every later domain is still processed: its property listing is
\* issued afterwards.
C4_LaterDomainsProcessed ==
  pc \in Terminal =>
    \A k \in 1..Len(calls) :
      (calls[k].op \in GaOps /\ calls[k].res = "error" /\ calls[k].d \in 1..(NDomains - 1)) =>
        \E j \in (k + 1)..Len(calls) :
          calls[j].op = "properties.list" /\ calls[j].d = calls[k].d + 1

\* C5: get_credentials refreshes an expired token that carries a refresh
\* token without the interactive flow and rewrites the token file with the
\* refreshed credential before returning it; the token file is written on
\* every refresh and every interactive acquisition and is left alone when
\* the loaded token is valid.
C5_TokenFileWritten ==
  [][(pc = "get_credentials" /\ pc' = "ga_accounts") =>
       /\ (tokenFile.origin # "none" /\ tokenFile.expired /\ tokenFile.refresh) =>
            /\ flowRuns' = flowRuns
            /\ Valid(creds')
            /\ tokenFile' = creds'
            /\ tokenFile' # tokenFile
            /\ tokenWrites' = tokenWrites + 1
       /\ (tokenFile.origin # "none" /\ Valid(tokenFile)) =>
            /\ creds' = tokenFile
            /\ tokenFile' = tokenFile
            /\ tokenWrites' = tokenWrites
            /\ flowRuns' = flowRuns
       /\ (flowRuns' # flowRuns) =>
            /\ tokenFile' = creds'
            /\ tokenWrites' = tokenWrites + 1
       /\ (tokenWrites' # tokenWrites) => creds'.origin \in {"refreshed", "interactive"}]_vars

\* get_credentials has just returned a refreshed credential
C5_Witness ==
  /\ pc = "ga_accounts"
  /\ creds.origin = "refreshed"
  /\ tokenFile = creds
  /\ tokenWrites = 1
  /\ flowRuns = 0

\* C6: without a usable stored token and without the client-secret file,
\* get_credentials returns no credential instead of raising, the token file
\* is not written, no remote call is issued and no measurement-ID file is
\* written.
C6_MissingSecretReturnsNone ==
  (pc \in Terminal /\ creds = NoCreds /\ CredentialPath(tokenFile) = "flow" /\ ~secretExists) =>
    /\ pc = "returned"
    /\ tokenWrites = 0
    /\ calls = <<>>

\* C7: when setup_analytics has ended (returned or raised) and the listed
\* properties matched a domain, the first one in listing order was selected, no property is created for the domain and the data-stream
\* listing and creation use the selected property as parent; when a data
\* stream under it matches, the recorded measurement ID is that of the first
\* matching stream and nothing is created for the domain.
C7_FirstMatchReused ==
  pc \in {"sc_build", "crashed"} =>
    \A d \in DomainIx :
      Created("dataStreams.list", d) # {} =>
        LET p == Selected(d) IN
          /\ PropHits(d) # {} =>
               /\ p \in PropHits(d)
               /\ \A h \in PropHits(d) : p <= h
               /\ Count("properties.create", d) = 0
          /\ \A k \in CallIx("dataStreams.create", d) : calls[k].arg = p
          /\ StreamHits(d, p) # {} =>
               /\ measurement_ids[d] \in StreamHits(d, p)
               /\ \A h \in StreamHits(d, p) : measurement_ids[d] <= h
               /\ Count("dataStreams.create", d) = 0

\* a domain with two matching properties and two matching streams was handled
C7_Witness ==
  /\ pc = "sc_build"
  /\ \E d \in DomainIx :
       /\ Created("dataStreams.list", d) # {}
       /\ Cardinality(PropHits(d)) = 2
       /\ Cardinality(StreamHits(d, Selected(d))) = 2
       /\ measurement_ids[d] # 0

\* C8: once setup_search_console has built its service, sites().add is called
\* exactly once per domain in configured order whatever the earlier add and
\* get calls returned or raised, and each add is followed by the get of the
\* same domain.
C8_AddOncePerDomain ==
  /\ \A k \in 1..Len(ScCalls) :
       /\ ScCalls[k].op = (IF k % 2 = 1 THEN "sites.add" ELSE "sites.get")
       /\ ScCalls[k].d = (k + 1) \div 2
  /\ (pc = "sc_add" => Len(ScCalls) = 2 * (i - 1))
  /\ (pc = "sc_get" => Len(ScCalls) = 2 * i - 1)
  /\ (pc \in {"output", "done"} /\ (\E k \in 1..Len(calls) : calls[k] = Call("sc.build", 0, 0, "ok")))
       => Len(ScCalls) = 2 * NDomains

\* the add of the last domain has just been refused with a 403 after the
\* earlier domains were handled; its status lookup is next
C8_Witness ==
  /\ pc = "sc_get"
  /\ i = NDomains
  /\ scResult = "403"
  /\ Len(ScCalls) = 2 * NDomains - 1

\* C9: once main holds a credential, setup_search_console is always entered,
\* also when setup_analytics failed or found no account; the measurement-ID
\* file is written last, after both steps, and only for a non-empty mapping.
C9_StepOrder ==
  /\ (pc \in Terminal /\ creds # NoCreds) =>
       \E k \in 1..Len(calls) : calls[k].op = "sc.build"
  /\ \A k \in 1..Len(calls) :
       /\ calls[k].op = "write_ids" =>
            /\ Truthy(main_ids)
            /\ k = Len(calls)
            /\ \E j \in 1..(k - 1) : calls[j].op = "sc.build"
       /\ calls[k].op = "sc.build" =>
            /\ \E j \in 1..(k - 1) : calls[j].op = "accounts.list"
            /\ \A j \in (k + 1)..Len(calls) : calls[j].op \notin GaOps
  /\ (pc = "done" /\ ~Truthy(main_ids)) => ~WroteIds

\* C10: a measurement ID recorded for a domain is that of a web data stream
\* whose default URI ends with the domain and whose parent is the property
\* selected or created for the domain.
C10_StreamBelongsToDomain ==
  \A d \in DomainIx :
    measurement_ids[d] # 0 =>
      LET st == streams[measurement_ids[d]] IN
        /\ st.web
        /\ EndsWith(UriText(st.uri), DOMAINS[d])
        /\ st.parent = Selected(d)

====
